---------------------------- MODULE Spec2Model ----------------------------
(***************************************************************************)
(* Model of the nmk modelling core:                                        *)
(*   - nmk/model/config.py : config nodes, reference interpolation         *)
(*     (_format), caching resolve, merged list/dict configs;               *)
(*   - nmk/model/task.py   : task name resolution, subtask resolution,     *)
(*     append/prepend contributions;                                       *)
(*   - nmk/model/loader.py : validate_tasks.                               *)
(*                                                                         *)
(* Python values are tagged records [t, v]; a Python str is a sequence of  *)
(* one-character strings, so that the reference pattern is matched on      *)
(* characters, as re.search does.                                          *)
(***************************************************************************)
EXTENDS Integers, Sequences, FiniteSets, TLC

VARIABLES
    config,       \* model.config : name -> config node (fixed once populated)
    cached,       \* per node: cached_value, or None
    resolverVal,  \* per node: what resolver.get_value(name) returns now
    firstVal,     \* history: first value a caching resolve of the node returned
    last,         \* history: the last top-level operation and its outcome
    tasks,        \* model.tasks : task name -> task
    tlast,        \* history: the last task operation and its outcome
    files,        \* one task's _inputs_cfg, _outputs_cfg, _inputs and _outputs
    flast         \* history: the last access to inputs or outputs and its outcome

cvars == <<config, cached, resolverVal, firstVal, last>>
tvars == <<tasks, tlast>>
fvars == <<files, flast>>
vars == <<config, cached, resolverVal, firstVal, last, tasks, tlast, files, flast>>

-----------------------------------------------------------------------------
(* Python values *)

VStr(s) == [t |-> "str", v |-> s]
VInt(i) == [t |-> "int", v |-> i]
VBool(b) == [t |-> "bool", v |-> b]
VList(xs) == [t |-> "list", v |-> xs]
\* a dict is the sequence of its <<key, value>> items in insertion order
VDict(ps) == [t |-> "dict", v |-> ps]
None == [t |-> "none", v |-> 0]

IsStr(x) == x.t = "str"
IsList(x) == x.t = "list"
IsDict(x) == x.t = "dict"

\* isinstance(out, declared_type): bool is a subclass of int in Python
IsInstance(x, ty) == x.t = ty \/ (x.t = "bool" /\ ty = "int")

RECURSIVE Concat(_)
Concat(ss) == IF ss = <<>> THEN <<>> ELSE Head(ss) \o Concat(Tail(ss))

RECURSIVE Join(_, _)
Join(ss, sep) ==
    IF ss = <<>> THEN <<>>
    ELSE IF Len(ss) = 1 THEN ss[1]
    ELSE ss[1] \o sep \o Join(Tail(ss), sep)

Digits == <<"0", "1", "2", "3", "4", "5", "6", "7", "8", "9">>

RECURSIVE NatStr(_)
NatStr(i) == IF i < 10 THEN <<Digits[i + 1]>>
             ELSE NatStr(i \div 10) \o <<Digits[(i % 10) + 1]>>

\* str(x) / repr(x) of a Python value, as characters
RECURSIVE PyRepr(_)
PyRepr(x) ==
    CASE x.t = "str" -> <<"'">> \o x.v \o <<"'">>
      [] x.t = "int" -> IF x.v < 0 THEN <<"-">> \o NatStr(0 - x.v) ELSE NatStr(x.v)
      [] x.t = "bool" -> IF x.v THEN <<"T", "r", "u", "e">>
                         ELSE <<"F", "a", "l", "s", "e">>
      [] x.t = "list" ->
            <<"[">> \o Join([i \in 1..Len(x.v) |-> PyRepr(x.v[i])], <<",", " ">>) \o <<"]">>
      [] x.t = "dict" ->
            <<"{">> \o Join([i \in 1..Len(x.v) |->
                               <<"'">> \o x.v[i][1] \o <<"'", ":", " ">> \o PyRepr(x.v[i][2])],
                            <<",", " ">>) \o <<"}">>
      [] OTHER -> <<"N", "o", "n", "e">>

PyStr(x) == IF x.t = "str" THEN x.v ELSE PyRepr(x)

-----------------------------------------------------------------------------
(* CONFIG_REF_PATTERN = re.compile(r"\$\{([^ \}]+)\}") and its search *)

\* length of the longest run of characters other than " " and "}" from s[i]
RECURSIVE RunLen(_, _)
RunLen(s, i) ==
    IF i > Len(s) \/ s[i] = " " \/ s[i] = "}" THEN 0 ELSE 1 + RunLen(s, i + 1)

\* the pattern matches at i: "${", a greedy non-empty run, then "}"
MatchAt(s, i) ==
    /\ i + 3 <= Len(s)
    /\ s[i] = "$"
    /\ s[i + 1] = "{"
    /\ RunLen(s, i + 2) >= 1
    /\ i + 2 + RunLen(s, i + 2) <= Len(s)
    /\ s[i + 2 + RunLen(s, i + 2)] = "}"

HasMatch(s) == \E i \in 1..Len(s) : MatchAt(s, i)

\* re.search: the leftmost match; begin/end are the 1-based first and last
\* characters of group 0, group1 the referenced text
Search(s) ==
    LET b == CHOOSE i \in 1..Len(s) : MatchAt(s, i) /\ \A j \in 1..(i - 1) : ~MatchAt(s, j)
        n == RunLen(s, b + 2)
    IN [begin |-> b, end |-> b + 2 + n, group1 |-> SubSeq(s, b + 2, b + 1 + n)]

\* str.split(".")
RECURSIVE Split(_, _)
Split(s, cur) ==
    IF s = <<>> THEN <<cur>>
    ELSE IF Head(s) = "." THEN <<cur>> \o Split(Tail(s), <<>>)
    ELSE Split(Tail(s), Append(cur, Head(s)))

-----------------------------------------------------------------------------
(* Resolution: the state a resolve call reads and writes, and its outcome *)

\* NmkRootConfig.BASE_DIR
BASE_DIR == <<"B", "A", "S", "E", "D", "I", "R">>

\* A resolver whose get_value raises
Raises == [t |-> "raise", v |-> 0]

\* st: [cached, gets, rcalls, first, gap, reentry, failed]
\*   cached : the nodes' cached_value
\*   gets   : _get_value calls per registry node during this operation
\*   rcalls : resolver.get_value calls per node during this operation
\*   first  : first value each node's caching resolve returned (history)
\*   gap    : a resolve was entered with an ancestry lacking a node in progress
\*   reentry: a resolve of a node was entered while one of it was in progress
\*   failed : the nodes whose resolve call raised during this operation
Ok(val, st) == [ok |-> TRUE, err |-> "", wrapped |-> FALSE, val |-> val, st |-> st]
Fail(err, st) == [ok |-> FALSE, err |-> err, wrapped |-> FALSE, val |-> None, st |-> st]

\* raise Exception(f"Error occurred while resolving config ...: {e}")
Wrap(r) == IF r.ok THEN r ELSE [r EXCEPT !.wrapped = TRUE]

DictHas(ps, k) == \E i \in 1..Len(ps) : ps[i][1] = k
DictGet(ps, k) == ps[CHOOSE i \in 1..Len(ps) : ps[i][1] = k][2]
\* d[k] = x : replaces in place, or adds at the end
DictSet(ps, k, x) ==
    IF DictHas(ps, k)
    THEN [i \in 1..Len(ps) |-> IF ps[i][1] = k THEN <<k, x>> ELSE ps[i]]
    ELSE Append(ps, <<k, x>>)

\* the doted-reference walk of _format
RECURSIVE Walk(_, _, _)
Walk(v, segments, st) ==
    IF segments = <<>> THEN Ok(v, st)
    ELSE IF ~IsDict(v) THEN Fail("DotPath", st)
    ELSE IF Len(Head(segments)) = 0 THEN Fail("DotPath", st)
    ELSE IF ~DictHas(v.v, Head(segments)) THEN Fail("DotPath", st)
    ELSE Walk(DictGet(v.v, Head(segments)), Tail(segments), st)

RECURSIVE Format(_, _, _, _, _, _, _, _)
RECURSIVE FormatItems(_, _, _, _, _, _, _, _, _)
RECURSIVE FormatStr(_, _, _, _, _, _, _, _)
RECURSIVE Resolve(_, _, _, _, _)
RECURSIVE MergeHolders(_, _, _, _, _, _, _)
RECURSIVE TraverseList(_, _, _, _, _, _, _, _)
RECURSIVE TraverseDict(_, _, _, _, _, _, _, _)

\* resolved_from = set(resolved_from) if resolved_from is not None else set();
\* resolved_from.add(self.name): the callee's own copy (None is the empty set)
Ancestry(resolved_from, name) == resolved_from \cup {name}

\* "ref_name not in resolved_from" fails
InAncestry(ref_name, resolved_from, st) == ref_name \in resolved_from

IsDoted(ref) == \E i \in 1..Len(ref) : ref[i] = "."
\* segments[0] of a doted reference, else the reference itself
RefName(ref) == IF IsDoted(ref) THEN Split(ref, <<>>)[1] ELSE ref

\* "Doted reference?": the walk over segments[1:] of the resolved reference r
Doted(ref, r) ==
    IF ~r.ok \/ ~IsDoted(ref) THEN r
    ELSE Walk(r.val, Tail(Split(ref, <<>>)), r.st)

\* the reference found by the pattern, resolved
RefValue(name, selfPath, cache, ref, resolved_from, path, st, chain) ==
    IF ref = BASE_DIR
    THEN Ok(VStr(PyStr(IF path # None THEN path ELSE selfPath)), st)
    ELSE IF InAncestry(RefName(ref), resolved_from, st) THEN Fail("Cyclic", st)
    ELSE IF RefName(ref) \notin DOMAIN config THEN Fail("Unknown", st)
    ELSE Doted(ref, Resolve(RefName(ref), cache, resolved_from, st, chain))

\* "Replace with resolved value": m is the match, r the resolved reference
Replace(name, selfPath, cache, to_format, resolved_from, path, chain, m, r) ==
    IF ~r.ok THEN r
    ELSE IF m.begin = 1 /\ m.end = Len(to_format) /\ ~IsStr(r.val) THEN r
    ELSE FormatStr(name, selfPath, cache,
                   SubSeq(to_format, 1, m.begin - 1) \o PyStr(r.val)
                       \o SubSeq(to_format, m.end + 1, Len(to_format)),
                   resolved_from, path, r.st, chain)

\* the while loop of _format over a string
FormatStr(name, selfPath, cache, to_format, resolved_from, path, st, chain) ==
    IF ~HasMatch(to_format) THEN Ok(VStr(to_format), st)
    ELSE Replace(name, selfPath, cache, to_format, resolved_from, path, chain,
                 Search(to_format),
                 RefValue(name, selfPath, cache, Search(to_format).group1,
                          resolved_from, path, st, chain))

FormatRest(name, selfPath, cache, items, resolved_from, path, chain, acc, r) ==
    IF ~r.ok THEN r
    ELSE FormatItems(name, selfPath, cache, Tail(items), resolved_from, path, r.st,
                     chain, Append(acc, r.val))

\* [self._format(cache, c, resolved_from, path) for c in candidate]
FormatItems(name, selfPath, cache, items, resolved_from, path, st, chain, acc) ==
    IF items = <<>> THEN Ok(VList(acc), st)
    ELSE FormatRest(name, selfPath, cache, items, resolved_from, path, chain, acc,
                    Format(name, selfPath, cache, Head(items), resolved_from, path,
                           st, chain))

\* the values of a list, or of a dict's items
ItemsOf(candidate) ==
    IF IsList(candidate) THEN candidate.v
    ELSE [i \in 1..Len(candidate.v) |-> candidate.v[i][2]]

\* the formatted values r back in the candidate's shape (a dict keeps its keys)
Rebuild(candidate, r) ==
    IF ~r.ok \/ IsList(candidate) THEN r
    ELSE Ok(VDict([i \in 1..Len(candidate.v) |-> <<candidate.v[i][1], r.val.v[i]>>]),
            r.st)

\* NmkConfig._format, for the node (or holder) called name declared at selfPath
Format(name, selfPath, cache, candidate, resolved_from, path, st, chain) ==
    IF IsList(candidate) \/ IsDict(candidate)
    THEN Rebuild(candidate,
                 FormatItems(name, selfPath, cache, ItemsOf(candidate),
                             Ancestry(resolved_from, name), path, st, chain, <<>>))
    ELSE IF ~IsStr(candidate) THEN Ok(candidate, st)
    ELSE FormatStr(name, selfPath, cache, candidate.v, Ancestry(resolved_from, name),
                   path, st, chain)

ListRest(n, items, cache, resolved_from, holder, chain, sub) ==
    IF ~sub.ok THEN sub
    ELSE TraverseList(n, Tail(items), sub.val, cache, resolved_from, holder, sub.st,
                      chain)

\* a loop body that appends a sub-list as one item instead of going deeper
ListItemNested(n, items, out, cache, resolved_from, holder, chain, f) ==
    IF ~f.ok THEN f
    ELSE IF ~IsList(out) THEN Fail("MergeType", f.st)
    ELSE TraverseList(n, Tail(items), VList(Append(out.v, f.val)), cache,
                      resolved_from, holder, f.st, chain)

\* the body of traverse_list's loop, f being the formatted item
ListItem(n, items, out, cache, resolved_from, holder, chain, f) ==
    IF ~f.ok THEN f
    ELSE IF IsList(f.val)
    THEN ListRest(n, items, cache, resolved_from, holder, chain,
                  TraverseList(n, f.val.v, out, cache, resolved_from, holder, f.st,
                               chain))
    ELSE IF ~IsList(out) THEN Fail("MergeType", f.st)
    ELSE TraverseList(n, Tail(items), VList(Append(out.v, f.val)), cache,
                      resolved_from, holder, f.st, chain)

\* NmkMergedConfig.traverse_list; out is the value being appended to
TraverseList(n, items, out, cache, resolved_from, holder, st, chain) ==
    IF items = <<>> THEN Ok(out, st)
    ELSE ListItem(n, items, out, cache, resolved_from, holder, chain,
                  Format(n, config[n].path, cache, Head(items), resolved_from,
                         holder.path, st, chain))

\* out_dict[k] when present, else the fresh container put there
Slot(out, k, fresh) == IF DictHas(out.v, k) THEN DictGet(out.v, k) ELSE fresh

DictRest(n, items, out, cache, resolved_from, holder, chain, sub) ==
    IF ~sub.ok THEN sub
    ELSE TraverseDict(n, Tail(items), VDict(DictSet(out.v, Head(items)[1], sub.val)),
                      cache, resolved_from, holder, sub.st, chain)

\* a loop body that replaces what the key held instead of merging into it
DictItemReplace(n, items, out, cache, resolved_from, holder, chain, f) ==
    IF ~f.ok THEN f
    ELSE IF ~IsDict(out) THEN Fail("MergeType", f.st)
    ELSE TraverseDict(n, Tail(items), VDict(DictSet(out.v, Head(items)[1], f.val)),
                      cache, resolved_from, holder, f.st, chain)

\* the body of traverse_dict's loop, f being the formatted value of the item
DictItem(n, items, out, cache, resolved_from, holder, chain, f) ==
    IF ~f.ok THEN f
    ELSE IF ~IsDict(out) THEN Fail("MergeType", f.st)
    ELSE IF IsDict(f.val)
    THEN DictRest(n, items, out, cache, resolved_from, holder, chain,
                  TraverseDict(n, f.val.v, Slot(out, Head(items)[1], VDict(<<>>)),
                               cache, resolved_from, holder, f.st, chain))
    ELSE IF IsList(f.val)
    THEN DictRest(n, items, out, cache, resolved_from, holder, chain,
                  TraverseList(n, f.val.v, Slot(out, Head(items)[1], VList(<<>>)),
                               cache, resolved_from, holder, f.st, chain))
    ELSE TraverseDict(n, Tail(items), VDict(DictSet(out.v, Head(items)[1], f.val)),
                      cache, resolved_from, holder, f.st, chain)

\* NmkMergedConfig.traverse_dict; items are <<key, value>> pairs, out is the
\* value being merged into
TraverseDict(n, items, out, cache, resolved_from, holder, st, chain) ==
    IF items = <<>> THEN Ok(out, st)
    ELSE DictItem(n, items, out, cache, resolved_from, holder, chain,
                  Format(n, config[n].path, cache, Head(items)[2], resolved_from,
                         holder.path, st, chain))

MergeNext(n, holders, cache, resolved_from, chain, m) ==
    IF ~m.ok THEN m
    ELSE MergeHolders(n, Tail(holders), m.val, cache, resolved_from, m.st, chain)

\* self.traverse_list / self.traverse_dict (holder._get_value(cache), out, ...),
\* hv being the holder's value
MergeHolder(n, holders, out, cache, resolved_from, chain, hv) ==
    IF ~hv.ok THEN hv
    ELSE MergeNext(n, holders, cache, resolved_from, chain,
                   IF config[n].kind = "list"
                   THEN TraverseList(n, hv.val.v, out, cache, resolved_from,
                                     Head(holders), hv.st, chain)
                   ELSE TraverseDict(n, hv.val.v, out, cache, resolved_from,
                                     Head(holders), hv.st, chain))

\* NmkListConfig._get_value / NmkDictConfig._get_value: the loop over
\* static_list. holder._get_value(cache) formats the holder's own value, under
\* the holder's name and with no ancestry passed.
MergeHolders(n, holders, out, cache, resolved_from, st, chain) ==
    IF holders = <<>> THEN Ok(out, st)
    ELSE MergeHolder(n, holders, out, cache, resolved_from, chain,
                     Format(Head(holders).name, Head(holders).path, cache,
                            Head(holders).static_value, {}, None, st, chain))

\* what the node's _get_value formats: the static value, or the resolver's
RawValue(n) ==
    IF config[n].kind = "resolved" THEN resolverVal[n] ELSE config[n].static_value

\* NmkStaticConfig._get_value and NmkResolvedConfig._get_value
PlainGetValue(n, cache, resolved_from, st, chain) ==
    IF config[n].kind = "static"
    THEN Format(n, config[n].path, cache, RawValue(n), resolved_from, None, st, chain)
    ELSE IF RawValue(n) = Raises THEN Wrap(Fail("ResolverFailure", st))
    ELSE IF ~IsInstance(RawValue(n), config[n].rtype)
    THEN Wrap(Fail("TypeMismatch", st))
    ELSE Wrap(Format(n, config[n].path, cache, RawValue(n), resolved_from, None, st,
                     chain))

\* the calls counted: _get_value of node n, and its resolver's get_value
Counted(n, st) ==
    [st EXCEPT !.gets[n] = @ + 1,
               !.rcalls[n] = IF config[n].kind = "resolved" THEN @ + 1 ELSE @]

\* _get_value of the node's class
GetValue(n, cache, resolved_from, st, chain) ==
    IF config[n].kind \in {"list", "dict"}
    THEN MergeHolders(n, config[n].static_list,
                      IF config[n].kind = "list" THEN VList(<<>>) ELSE VDict(<<>>),
                      cache, resolved_from, Counted(n, st), chain)
    ELSE PlainGetValue(n, cache, resolved_from, Counted(n, st), chain)

\* a resolve that computes again a static node whose value holds a reference
MustComputeReferring(n, cache, st) ==
    \/ ~cache
    \/ st.cached[n] = None
    \/ /\ config[n].kind = "static"
       /\ IsStr(config[n].static_value)
       /\ HasMatch(config[n].static_value.v)

\* a resolve that ignores the cached value
MustComputeAlways(n, cache, st) == TRUE

\* "if not cache or not hasattr(self, 'cached_value') or self.cached_value is None"
MustCompute(n, cache, st) == ~cache \/ st.cached[n] = None

\* a resolve that caches the raw value of a node whose computation failed
StoreOnFailure(n, cache, r) ==
    IF cache
    THEN [r EXCEPT !.st.cached[n] = IF r.ok THEN r.val ELSE RawValue(n),
                   !.st.first[n] = IF @ = None /\ r.ok THEN r.val ELSE @]
    ELSE r

\* a resolve that stores what it computed whatever the cache flag
StoreRegardless(n, cache, r) ==
    IF r.ok
    THEN [r EXCEPT !.st.cached[n] = r.val,
                   !.st.first[n] = IF @ = None THEN r.val ELSE @]
    ELSE r

\* "if cache: self.cached_value = out", r being what _get_value returned
Store(n, cache, r) ==
    IF r.ok /\ cache
    THEN [r EXCEPT !.st.cached[n] = r.val,
                   !.st.first[n] = IF @ = None THEN r.val ELSE @]
    ELSE r

\* NmkConfig.resolve
BaseResolve(n, cache, resolved_from, st, chain) ==
    IF MustCompute(n, cache, st)
    THEN Store(n, cache, GetValue(n, cache, resolved_from, st, chain))
    ELSE Ok(st.cached[n], st)

\* a Resolved node that caches whatever its resolver says of volatility
CacheFlagAsGiven(n, cache) == cache

\* NmkResolvedConfig.resolve: "cache and not self.resolver.is_volatile(self.name)"
CacheFlag(n, cache) ==
    IF config[n].kind = "resolved" THEN cache /\ ~config[n].volatile ELSE cache

\* the entry of resolve(cache, resolved_from) of node n, observed: chain holds
\* the resolve calls in progress
Entered(n, resolved_from, st, chain) ==
    [st EXCEPT !.gap = @ \/ \E c \in chain : c[1] \notin resolved_from,
               !.reentry = @ \/ \E c \in chain : c[1] = n]

\* the exit of a resolve of node n, observed: r is what it returns or raises
Left(n, r) == IF r.ok THEN r ELSE [r EXCEPT !.st.failed = @ \cup {n}]

\* resolve of the node's class.
\* chain holds the resolve calls in progress, as <<node, cache, ancestry>>. A call
\* equal to one in progress repeats it without end (nothing it reads changed in
\* between: a node on the way is cached only when its own resolve returns), and
\* Python ends that with RecursionError.
Resolve(n, cache, resolved_from, st, chain) ==
    IF <<n, cache, resolved_from>> \in chain
    THEN Left(n, Fail("Recursion", Entered(n, resolved_from, st, chain)))
    ELSE Left(n, BaseResolve(n, CacheFlag(n, cache), resolved_from,
                             Entered(n, resolved_from, st, chain),
                             chain \cup {<<n, cache, resolved_from>>}))

-----------------------------------------------------------------------------
(* The registries the model is populated with *)

NA == <<"A">>
NB == <<"B">>
NC == <<"C">>
ConfigNames == {NA, NB, NC}

\* "${name}"
Tok(name) == <<"$", "{">> \o name \o <<"}">>

ProjectPath == VStr(<<"/", "p">>)
HolderPath == VStr(<<"/", "h">>)

\* NmkStaticConfig(name, model, path, static_value)
Static(val) ==
    [kind |-> "static", static_value |-> val, volatile |-> FALSE, rtype |-> "",
     static_list |-> <<>>, path |-> ProjectPath]

\* NmkResolvedConfig(name, model, path, resolver): the resolver's is_volatile
\* and get_type answers for the name
Resolved(vol, ty) ==
    [kind |-> "resolved", static_value |-> None, volatile |-> vol, rtype |-> ty,
     static_list |-> <<>>, path |-> ProjectPath]

\* NmkListConfig / NmkDictConfig(name, model, path, static_list)
Merged(kind, holders) ==
    [kind |-> kind, static_value |-> None, volatile |-> FALSE, rtype |-> kind,
     static_list |-> holders, path |-> ProjectPath]

\* a holder of a merged config: a static config carrying the merged config's name
Holder(name, val) == [name |-> name, static_value |-> val, path |-> HolderPath]

LitX == <<"x">>
LitY == <<"y">>

NodeChoices(n) ==
    CASE n = NA ->
            { Static(VStr(Tok(NB))),
              Static(VStr(Tok(NB) \o Tok(NC))),
              Static(VStr(LitX \o Tok(NA))),
              Static(VStr(<<"$">> \o Tok(NB))),
              Merged("list", <<Holder(NA, VList(<<VStr(Tok(NB)), VStr(Tok(NC))>>)),
                               Holder(NA, VList(<<VStr(LitX)>>))>>) }
      [] n = NB ->
            { Static(VStr(Tok(NC))),
              Static(VStr(Tok(NA))),
              Static(VStr(LitY)),
              Static(VStr(<<"{", "A", "}">>)),
              Merged("list", <<Holder(NB, VList(<<VStr(Tok(NA))>>))>>),
              Merged("dict", <<Holder(NB, VDict(<<<<LitX, VStr(Tok(NA))>>>>))>>),
              Resolved(TRUE, "str") }
      [] n = NC ->
            { Static(VStr(LitX)),
              Static(VInt(1)),
              Static(VStr(Tok(NA))),
              Merged("list", <<Holder(NC, VList(<<VStr(Tok(NB))>>))>>),
              Resolved(FALSE, "str") }

Registries == {c \in [ConfigNames -> UNION {NodeChoices(n) : n \in ConfigNames}] :
                  \A n \in ConfigNames : c[n] \in NodeChoices(n)}

\* what a resolver may return for a name
ResolverValues == {VStr(LitX), VStr(LitY), VStr(Tok(NC))}

NoCounts == [n \in ConfigNames |-> 0]
NoLast == [op |-> "none", node |-> <<>>, cache |-> FALSE, ok |-> FALSE, err |-> "",
           wrapped |-> FALSE, val |-> None, gets |-> NoCounts, rcalls |-> NoCounts,
           clean |-> FALSE, prev |-> None, pre |-> [n \in ConfigNames |-> None],
           gap |-> FALSE, reentry |-> FALSE, failed |-> {}]

\* the state a caller's operation starts from
Start(c, f) ==
    [cached |-> c, gets |-> NoCounts, rcalls |-> NoCounts, first |-> f,
     gap |-> FALSE, reentry |-> FALSE, failed |-> {}]

-----------------------------------------------------------------------------
(* Tasks: name lookup, subtask resolution and contributions (task.py) *)

\* model.tasks: the task table, in insertion order; NM names no task
T1 == "T1"
T2 == "T2"
T3 == "T3"
NM == "M"
TaskOrder == <<T1, T2, T3>>
TaskNames == {TaskOrder[i] : i \in 1..Len(TaskOrder)}

\* a declaration: a name, a list of candidate names, or None
NameDecl(n) == [k |-> "str", names |-> <<n>>]
ListDecl(ns) == [k |-> "list", names |-> ns]
NoDecl == [k |-> "none", names |-> <<>>]

\* NmkTask(name, ..., _deps, _append_to, _prepend_to, ..., subtasks=None)
Task(deps, append_to, prepend_to) ==
    [deps |-> deps, append_to |-> append_to, prepend_to |-> prepend_to,
     has_subtasks |-> FALSE, subtasks |-> <<>>]

\* outcome of a task operation: the table it leaves, and the error raised
TOk(ts) == [ok |-> TRUE, err |-> "", ts |-> ts]
TFail(err, ts) == [ok |-> FALSE, err |-> err, ts |-> ts]

\* what __resolve_task returns: a task of the table, None, or an error
Found(n) == [ok |-> TRUE, found |-> TRUE, task |-> n]
NoTarget == [ok |-> TRUE, found |-> FALSE, task |-> ""]
NotFound == [ok |-> FALSE, found |-> FALSE, task |-> ""]

\* the candidates loop taking the last known candidate instead of the first
RECURSIVE LastKnown(_)
LastKnown(name_list) ==
    IF name_list = <<>> THEN NotFound
    ELSE IF name_list[Len(name_list)] \in TaskNames THEN Found(name_list[Len(name_list)])
    ELSE LastKnown(SubSeq(name_list, 1, Len(name_list) - 1))

\* "for name_candidate in name_list: if name_candidate in self.model.tasks:
\* return ...; else: raise AssertionError"
RECURSIVE FirstKnown(_)
FirstKnown(name_list) ==
    IF name_list = <<>> THEN NotFound
    ELSE IF Head(name_list) \in TaskNames THEN Found(Head(name_list))
    ELSE FirstKnown(Tail(name_list))

\* NmkTask.__resolve_task(name)
ResolveTask(name) ==
    IF name.k = "none" THEN NoTarget ELSE FirstKnown(name.names)

\* map(self.__resolve_task, self._deps) raises on the first failing entry
RECURSIVE MapOk(_)
MapOk(deps) ==
    IF deps = <<>> THEN TRUE
    ELSE ResolveTask(Head(deps)).ok /\ MapOk(Tail(deps))

\* list(filter(lambda t: t is not None, map(self.__resolve_task, self._deps)))
RECURSIVE MapFiltered(_)
MapFiltered(deps) ==
    IF deps = <<>> THEN <<>>
    ELSE (IF ResolveTask(Head(deps)).found THEN <<ResolveTask(Head(deps)).task>>
          ELSE <<>>) \o MapFiltered(Tail(deps))

\* NmkTask._resolve_subtasks of task t
ResolveSubtasksOf(ts, t) ==
    IF ts[t].has_subtasks THEN TOk(ts)
    ELSE IF ~MapOk(ts[t].deps) THEN TFail("TaskNotFound", ts)
    ELSE TOk([ts EXCEPT ![t].has_subtasks = TRUE,
                        ![t].subtasks = MapFiltered(ts[t].deps)])

\* a membership test that never finds the name
NameInNever(name, deps) == FALSE

\* "self.name in t._deps": a str equals a str entry only
NameIn(name, deps) == \E i \in 1..Len(deps) : deps[i] = NameDecl(name)

\* an insertion that puts the name first and the task last
InsertedApart(ts, target, name, append) ==
    [ts EXCEPT ![target].deps = <<NameDecl(name)>> \o @,
               ![target].subtasks = Append(@, name)]

\* "t._deps.append(self.name); t.subtasks.append(self)" or
\* "t._deps.insert(0, self.name); t.subtasks.insert(0, self)"
Inserted(ts, target, name, append) ==
    IF append
    THEN [ts EXCEPT ![target].deps = Append(@, NameDecl(name)),
                    ![target].subtasks = Append(@, name)]
    ELSE [ts EXCEPT ![target].deps = <<NameDecl(name)>> \o @,
                    ![target].subtasks = <<name>> \o @]

\* the body of __contribute_dep under its "if", rs being what
\* t._resolve_subtasks() left
ContributeTo(rs, target, name, append) ==
    IF ~rs.ok THEN rs ELSE TOk(Inserted(rs.ts, target, name, append))

\* __contribute_dep once the target is resolved to r
ContributeFound(ts, self, r, append) ==
    IF ~r.ok THEN TFail("TaskNotFound", ts)
    ELSE IF ~r.found THEN TOk(ts)
    ELSE IF NameIn(self, ts[r.task].deps) THEN TOk(ts)
    ELSE ContributeTo(ResolveSubtasksOf(ts, r.task), r.task, self, append)

\* NmkTask.__contribute_dep(name, append) of task self
ContributeDep(ts, self, name, append) ==
    ContributeFound(ts, self, ResolveTask(name), append)

\* the prepend contribution, a being what the append contribution left
ThenPrepend(a, self) ==
    IF ~a.ok THEN a ELSE ContributeDep(a.ts, self, a.ts[self].prepend_to, FALSE)

\* the append contribution, p being what the prepend contribution left
ThenAppend(p, self) ==
    IF ~p.ok THEN p ELSE ContributeDep(p.ts, self, p.ts[self].append_to, TRUE)

\* contributions made in the other order: prepend, then append
ResolveContribsPrependFirst(ts, self) ==
    ThenAppend(ContributeDep(ts, self, ts[self].prepend_to, FALSE), self)

\* NmkTask._resolve_contribs of task self
ResolveContribsOf(ts, self) ==
    ThenPrepend(ContributeDep(ts, self, ts[self].append_to, TRUE), self)

\* one turn of the loop of validate_tasks, s being what _resolve_subtasks left
ValidateOne(s, t) == IF ~s.ok THEN s ELSE ResolveContribsOf(s.ts, t)

RECURSIVE ValidateFrom(_, _)
RECURSIVE ValidateReversed(_, _)

ValidateRestReversed(c, i) == IF ~c.ok THEN c ELSE ValidateReversed(c.ts, i + 1)

\* a pass that visits the table from its last task to its first
ValidateReversed(ts, i) ==
    IF i > Len(TaskOrder) THEN TOk(ts)
    ELSE ValidateRestReversed(
             ValidateOne(ResolveSubtasksOf(ts, TaskOrder[Len(TaskOrder) + 1 - i]),
                         TaskOrder[Len(TaskOrder) + 1 - i]), i)

ValidateRest(c, i) == IF ~c.ok THEN c ELSE ValidateFrom(c.ts, i + 1)

\* NmkLoader.validate_tasks: "for task in self.model.tasks.values():
\* task._resolve_subtasks(); task._resolve_contribs()", from the i-th task on
ValidateFrom(ts, i) ==
    IF i > Len(TaskOrder) THEN TOk(ts)
    ELSE ValidateRest(ValidateOne(ResolveSubtasksOf(ts, TaskOrder[i]), TaskOrder[i]), i)

-----------------------------------------------------------------------------
(* The task tables the model is populated with *)

DepsChoices(t) ==
    CASE t = T1 -> { <<>>, <<NoDecl, NameDecl(T3)>> }
      [] t = T2 -> { <<>>, <<ListDecl(<<NM, T3>>)>> }
      [] t = T3 -> { <<>>, <<NameDecl(T2), NameDecl(T1)>>, <<NameDecl(NM)>>,
                     <<ListDecl(<<NM, T1>>)>> }

AppendChoices(t) ==
    CASE t = T1 -> { NoDecl, NameDecl(T3), NameDecl(T1) }
      [] t = T2 -> { NoDecl, NameDecl(T3), ListDecl(<<NM>>) }
      [] t = T3 -> { NoDecl, ListDecl(<<T1, T2>>) }

PrependChoices(t) ==
    CASE t = T1 -> { NoDecl, NameDecl(T3) }
      [] t = T2 -> { NoDecl, NameDecl(T3), NameDecl(T1) }
      [] t = T3 -> { NoDecl, ListDecl(<<NM, T1>>) }

TaskChoices(t) ==
    {Task(d, a, p) : d \in DepsChoices(t), a \in AppendChoices(t),
                     p \in PrependChoices(t)}

TaskTables == {ts \in [TaskNames -> UNION {TaskChoices(t) : t \in TaskNames}] :
                  \A t \in TaskNames : ts[t] \in TaskChoices(t)}

NoTasks == [t \in TaskNames |-> Task(<<>>, NoDecl, NoDecl)]
NoTLast == [op |-> "none", task |-> "", ok |-> FALSE, err |-> "",
            before |-> NoTasks, looked |-> <<>>]

\* a task with no file list config, its lists not computed yet
NoFiles == [_inputs_cfg |-> None, _outputs_cfg |-> None,
            _inputs |-> None, _outputs |-> None]
NoFLast == [op |-> "none", field |-> "", ok |-> FALSE, err |-> "", val |-> None,
            before |-> None, resolves |-> 0, value |-> None]

-----------------------------------------------------------------------------
(* Operations on the config registry *)

ConfigInit ==
    /\ config \in Registries
    /\ cached = [n \in ConfigNames |-> None]
    /\ resolverVal \in [ConfigNames -> ResolverValues \cup {None}]
    /\ \A n \in ConfigNames :
          (resolverVal[n] = None) <=> (config[n].kind # "resolved")
    /\ firstVal = [n \in ConfigNames |-> None]
    /\ last = NoLast
    /\ tasks = NoTasks
    /\ tlast = NoTLast
    /\ files = NoFiles
    /\ flast = NoFLast

\* node.resolve(cache) called with no ancestry (node.value is resolve(True)),
\* and what it leaves in the registry
Resolving(n, cache) ==
    LET r == Resolve(n, cache, {}, Start(cached, firstVal), {})
    IN /\ cached' = r.st.cached
       /\ firstVal' = r.st.first
       /\ last' = [op |-> "resolve", node |-> n, cache |-> cache, ok |-> r.ok,
                   err |-> r.err, wrapped |-> r.wrapped, val |-> r.val,
                   gets |-> r.st.gets, rcalls |-> r.st.rcalls,
                   clean |-> (\A m \in ConfigNames : cached[m] = None),
                   prev |-> firstVal[n], pre |-> cached, gap |-> r.st.gap,
                   reentry |-> r.st.reentry, failed |-> r.st.failed]
       /\ UNCHANGED <<config, resolverVal>>

\* a caller's node.resolve(cache)
DoResolve(n, cache) == Resolving(n, cache) /\ UNCHANGED <<tasks, tlast, files, flast>>

\* the environment: a resolver starts returning another value for a name
SetResolver(n, v) ==
    /\ config[n].kind = "resolved"
    /\ resolverVal[n] # v
    /\ resolverVal' = [resolverVal EXCEPT ![n] = v]
    /\ last' = [NoLast EXCEPT !.op = "set", !.node = n]
    /\ UNCHANGED <<config, cached, firstVal, tasks, tlast, files, flast>>

ConfigNext ==
    \/ \E n \in ConfigNames, cache \in BOOLEAN : DoResolve(n, cache)
    \/ \E n \in ConfigNames, v \in ResolverValues : SetResolver(n, v)

ConfigSpec == ConfigInit /\ [][ConfigNext]_vars

-----------------------------------------------------------------------------
(* Registries of merged configs, and of references that fail *)

\* a name no config has
NZ == <<"Z">>

KK == <<"k">>
KM == <<"m">>
KZ == <<"z">>
KW == <<"w">>

\* {"k": 1, "m": {"z": 1}}
D1 == VDict(<< <<KK, VInt(1)>>, <<KM, VDict(<< <<KZ, VInt(1)>> >>)>> >>)
\* {"m": {"w": "${C}"}}
D2 == VDict(<< <<KM, VDict(<< <<KW, VStr(Tok(NC))>> >>)>> >>)
\* {"k": ["x"]}
D3 == VDict(<< <<KK, VList(<<VStr(LitX)>>)>> >>)
\* {"k": {"z": 2}}
D4 == VDict(<< <<KK, VDict(<< <<KZ, VInt(2)>> >>)>> >>)
\* {"m": ["y", ["${C}"]]}
D5 == VDict(<< <<KM, VList(<<VStr(LitY), VList(<<VStr(Tok(NC))>>)>>)>> >>)
\* {"k": 2}
D6 == VDict(<< <<KK, VInt(2)>> >>)
\* {"k": ["y"], "w": "x"}
D7 == VDict(<< <<KK, VList(<<VStr(LitY)>>)>>, <<KW, VStr(LitX)>> >>)

\* the holders of a merged dict: the first, then the second
HolderPairs ==
    { <<D1, D2>>, <<D2, D1>>, <<D3, D7>>, <<D5, D5>>, <<D1, D6>>, <<D3, D6>>,
      <<D1, D4>>, <<D1, D3>>, <<D1, D5>>, <<D3, D4>> }

MergeChoices(n) ==
    CASE n = NA ->
            { Merged("list", <<Holder(NA, VList(<<VStr(LitX),
                                                  VList(<<VStr(LitY),
                                                          VList(<<VStr(LitX)>>)>>)>>)),
                               Holder(NA, VList(<<VStr(Tok(NC)), VStr(LitY)>>))>>),
              Merged("list", <<Holder(NA, VList(<<VStr(Tok(NC))>>)),
                               Holder(NA, VList(<<VList(<<VStr(Tok(NB \o <<".">> \o KK))>>)>>))>>),
              Static(VStr(Tok(NB \o <<".">> \o KK))),
              Static(VStr(Tok(NB \o <<".">> \o KM \o <<".">> \o KZ))),
              Static(VStr(LitX \o Tok(NZ))) }
      [] n = NB ->
            { Merged("dict", <<Holder(NB, p[1]), Holder(NB, p[2])>>) :
                  p \in HolderPairs }
      [] n = NC ->
            { Static(VList(<<VInt(1), VList(<<VStr(LitY)>>)>>)),
              Static(VStr(LitX)),
              Resolved(FALSE, "str") }

MergeRegistries == {c \in [ConfigNames -> UNION {MergeChoices(n) : n \in ConfigNames}] :
                       \A n \in ConfigNames : c[n] \in MergeChoices(n)}

\* what the resolver does at first: it returns an int, or it raises
FirstResolverValues == {VInt(1), Raises}

MergeInit ==
    /\ config \in MergeRegistries
    /\ cached = [n \in ConfigNames |-> None]
    /\ resolverVal \in [ConfigNames -> FirstResolverValues \cup {None}]
    /\ \A n \in ConfigNames :
          (resolverVal[n] = None) <=> (config[n].kind # "resolved")
    /\ firstVal = [n \in ConfigNames |-> None]
    /\ last = NoLast
    /\ tasks = NoTasks
    /\ tlast = NoTLast
    /\ files = NoFiles
    /\ flast = NoFLast

MergeSpec == MergeInit /\ [][ConfigNext]_vars

-----------------------------------------------------------------------------
(* Operations on the task table *)

\* a registry the task operations leave alone
NoConfig == [n \in ConfigNames |-> Static(VStr(LitX))]

TaskInit ==
    /\ tasks \in TaskTables
    /\ tlast = NoTLast
    /\ config = NoConfig
    /\ cached = [n \in ConfigNames |-> None]
    /\ resolverVal = [n \in ConfigNames |-> None]
    /\ firstVal = [n \in ConfigNames |-> None]
    /\ last = NoLast
    /\ files = NoFiles
    /\ flast = NoFLast

\* the outcome of an operation on the table, as the caller sees it
Done(op, t, r, looked) ==
    /\ tasks' = r.ts
    /\ tlast' = [op |-> op, task |-> t, ok |-> r.ok, err |-> r.err,
                 before |-> tasks, looked |-> looked]
    /\ UNCHANGED <<cvars, fvars>>

\* a caller's task._resolve_subtasks()
ResolveSubtasks(t) == Done("subtasks", t, ResolveSubtasksOf(tasks, t), <<>>)

\* the lookups a _resolve_contribs makes: the append target, then the prepend
\* target unless the append contribution raised
Lookups(t) ==
    <<[name |-> tasks[t].append_to, out |-> ResolveTask(tasks[t].append_to)]>> \o
    (IF ContributeDep(tasks, t, tasks[t].append_to, TRUE).ok
     THEN <<[name |-> tasks[t].prepend_to, out |-> ResolveTask(tasks[t].prepend_to)]>>
     ELSE <<>>)

\* a caller's task._resolve_contribs()
ResolveContribs(t) == Done("contribs", t, ResolveContribsOf(tasks, t), Lookups(t))

\* NmkLoader.validate_tasks()
ValidateTasks == Done("validate", "", ValidateFrom(tasks, 1), <<>>)

TaskNext ==
    \/ \E t \in TaskNames : ResolveSubtasks(t)
    \/ \E t \in TaskNames : ResolveContribs(t)
    \/ ValidateTasks

TaskSpec == TaskInit /\ [][TaskNext]_vars

-----------------------------------------------------------------------------
(* A task's file lists: inputs and outputs *)

\* the components of a path string: what lies between its "/", the empty ones
\* and "." left out (cur is the component being read)
Component(cur) == IF cur \in {<<>>, <<".">>} THEN <<>> ELSE <<cur>>

RECURSIVE Components(_, _)
Components(s, cur) ==
    IF s = <<>> THEN Component(cur)
    ELSE IF Head(s) = "/" THEN Component(cur) \o Components(Tail(s), <<>>)
    ELSE Components(Tail(s), Append(cur, Head(s)))

\* the root of a path string: "/", or "//" for exactly two leading slashes
Root(s) ==
    IF s = <<>> \/ s[1] # "/" THEN ""
    ELSE IF Len(s) >= 2 /\ s[2] = "/" /\ (Len(s) = 2 \/ s[3] # "/") THEN "//"
    ELSE "/"

\* Path(new_path), as far as == tells paths apart
Path(new_path) ==
    [t |-> "path", root |-> Root(new_path), parts |-> Components(new_path, <<>>)]

InPaths(p, paths) == \E i \in 1..Len(paths) : paths[i] = p

\* a task's reference to its file list config
ConfigRef(n) == [t |-> "config", v |-> n]

\* a loop that appends every path
RECURSIVE AddPathsAll(_, _)
AddPathsAll(items, paths) ==
    IF items = <<>> THEN paths
    ELSE AddPathsAll(Tail(items), Append(paths, Path(Head(items).v)))

\* the loop of _resolve_files over path_config.value
RECURSIVE AddPaths(_, _)
AddPaths(items, paths) ==
    IF items = <<>> THEN paths
    ELSE AddPaths(Tail(items),
                  IF InPaths(Path(Head(items).v), paths) THEN paths
                  ELSE Append(paths, Path(Head(items).v)))

\* Path() takes a str (or a path), and raises TypeError on anything else
AllStr(items) == \A i \in 1..Len(items) : IsStr(items[i])

CfgField(field) == IF field = "_inputs" THEN "_inputs_cfg" ELSE "_outputs_cfg"

\* a test that takes an empty list for one not computed yet
FilesKnownUnlessEmpty(field) == files[field] # None /\ files[field] # VList(<<>>)

\* getattr(self, field) is not None
FilesKnown(field) == files[field] # None

\* what the access leaves in flast, value being what path_config.value returned
Accessed(field, ok, err, val, resolves, value) ==
    flast' = [op |-> "access", field |-> field, ok |-> ok, err |-> err, val |-> val,
              before |-> files[field], resolves |-> resolves, value |-> value]

\* _resolve_files(field) when path_config is a config: path_config.value, then
\* the paths of its entries
ResolveFilesFrom(field, r) ==
    /\ Resolving(files[CfgField(field)].v, TRUE)
    /\ IF ~r.ok
       THEN Accessed(field, FALSE, r.err, None, 1, None) /\ UNCHANGED files
       ELSE IF ~AllStr(r.val.v)
       THEN Accessed(field, FALSE, "TypeError", None, 1, r.val) /\ UNCHANGED files
       ELSE /\ files' = [files EXCEPT ![field] = VList(AddPaths(r.val.v, <<>>))]
            /\ Accessed(field, TRUE, "", VList(AddPaths(r.val.v, <<>>)), 1, r.val)

\* a caller's task.inputs (field "_inputs") or task.outputs (field "_outputs")
ResolveFiles(field) ==
    /\ UNCHANGED tvars
    /\ IF FilesKnown(field)
       THEN /\ Accessed(field, TRUE, "", files[field], 0, None)
            /\ UNCHANGED <<cvars, files>>
       ELSE IF files[CfgField(field)] = None
       THEN /\ files' = [files EXCEPT ![field] = VList(<<>>)]
            /\ Accessed(field, TRUE, "", VList(<<>>), 0, None)
            /\ UNCHANGED cvars
       ELSE ResolveFilesFrom(field, Resolve(files[CfgField(field)].v, TRUE, {},
                                            Start(cached, firstVal), {}))

PA == <<"a">>
PB == <<"b">>

\* the registries of a task's file lists: A and B are list configs, C is what
\* their entries reference
FileChoices(n) ==
    CASE n = NA ->
            { Merged("list", <<Holder(NA, VList(<<VStr(PA), VStr(<<".", "/", "a">>),
                                                 VStr(Tok(NC)), VStr(PB)>>))>>),
              Merged("list",
                     <<Holder(NA, VList(<<VStr(<<"a", "/", "/", "b">>), VStr(Tok(NC))>>)),
                       Holder(NA, VList(<<VStr(<<"a", "/", "b", "/">>),
                                          VStr(<<"/", "a">>)>>))>>) }
      [] n = NB ->
            { Merged("list", <<Holder(NB, VList(<<VStr(Tok(NC))>>))>>) }
      [] n = NC ->
            { Resolved(TRUE, "list"), Resolved(FALSE, "list") }

FileRegistries == {c \in [ConfigNames -> UNION {FileChoices(n) : n \in ConfigNames}] :
                      \A n \in ConfigNames : c[n] \in FileChoices(n)}

\* what the resolver of C may return
FileResolverValues ==
    { VList(<<>>), VList(<<VStr(PB), VStr(<<"a", "/">>)>>), VList(<<VStr(PA), VInt(1)>>) }

FilesInit ==
    /\ config \in FileRegistries
    /\ cached = [n \in ConfigNames |-> None]
    /\ resolverVal \in [ConfigNames -> FileResolverValues \cup {None}]
    /\ \A n \in ConfigNames :
          (resolverVal[n] = None) <=> (config[n].kind # "resolved")
    /\ firstVal = [n \in ConfigNames |-> None]
    /\ last = NoLast
    /\ tasks = NoTasks
    /\ tlast = NoTLast
    /\ files \in {[NoFiles EXCEPT !._inputs_cfg = ConfigRef(NA)],
                  [NoFiles EXCEPT !._outputs_cfg = ConfigRef(NB)]}
    /\ flast = NoFLast

FilesNext ==
    \/ \E field \in {"_inputs", "_outputs"} : ResolveFiles(field)
    \/ \E n \in ConfigNames, cache \in BOOLEAN :
          /\ ConfigRef(n) \in {files._inputs_cfg, files._outputs_cfg}
          /\ DoResolve(n, cache)
    \/ \E n \in ConfigNames, v \in FileResolverValues : SetResolver(n, v)

FilesSpec == FilesInit /\ [][FilesNext]_vars

-----------------------------------------------------------------------------
(* The reference graph of the registry: who names whom in a ${...} token *)

\* the config names referenced by the tokens of a string, as written
RECURSIVE StrRefs(_)
StrRefs(s) ==
    IF ~HasMatch(s) THEN {}
    ELSE ({RefName(Search(s).group1)} \ {BASE_DIR})
             \cup StrRefs(SubSeq(s, Search(s).end + 1, Len(s)))

RECURSIVE ValueRefs(_)
ValueRefs(x) ==
    CASE IsStr(x) -> StrRefs(x.v)
      [] IsList(x) -> UNION {ValueRefs(x.v[i]) : i \in 1..Len(x.v)}
      [] IsDict(x) -> UNION {ValueRefs(x.v[i][2]) : i \in 1..Len(x.v)}
      [] OTHER -> {}

\* the nodes a node references: through its static value, its resolver's
\* current value, or its holders' values
NodeRefs(n) ==
    ConfigNames \cap
        (IF config[n].kind \in {"list", "dict"}
         THEN UNION {ValueRefs(config[n].static_list[i].static_value) :
                        i \in 1..Len(config[n].static_list)}
         ELSE ValueRefs(RawValue(n)))

RECURSIVE Closure(_)
Closure(S) ==
    IF UNION {NodeRefs(m) : m \in S} \subseteq S THEN S
    ELSE Closure(S \cup UNION {NodeRefs(m) : m \in S})

\* the nodes reachable from n in one or more references
Reach(n) == Closure(NodeRefs(n))

OnCycle(n) == n \in Reach(n)

IsMerged(n) == config[n].kind \in {"list", "dict"}
IsVolatile(n) == config[n].kind = "resolved" /\ config[n].volatile

\* a resolve of n by a caller is the last operation
Resolved1(n) == last.op = "resolve" /\ last.node = n

-----------------------------------------------------------------------------
(* Claims on the configuration resolution engine *)

\* C1 (as claimed): whenever the references reachable from a node form a cycle
\* through that node, resolving it with no cached values ends in the
\* cyclic-reference failure (it neither returns nor recurses without end).
C1_CycleAlwaysDetected ==
    \A n \in ConfigNames :
        (Resolved1(n) /\ last.clean /\ OnCycle(n)) =>
            (~last.ok /\ last.err = "Cyclic")

\* C1, the case that fails: two merged nodes referencing each other. The
\* recursion never meets the cycle guard.
C1_MergedCycleRecurses ==
    /\ Resolved1(NA) /\ last.clean
    /\ IsMerged(NA) /\ IsMerged(NB)
    /\ NB \in NodeRefs(NA) /\ NA \in NodeRefs(NB)
    /\ last.err = "Recursion"

\* C2: for a node that is not a volatile Resolved node, once a caching resolve
\* has returned a value, every later caching resolve returns that value and
\* calls neither the node's _get_value nor its resolver's get_value.
C2_CachedValueReturned ==
    \A n \in ConfigNames :
        (Resolved1(n) /\ last.cache /\ ~IsVolatile(n) /\ last.prev # None) =>
            /\ last.ok
            /\ last.val = last.prev
            /\ last.gets[n] = 0
            /\ last.rcalls[n] = 0

\* C2 witness: a cached non-volatile Resolved node is read again after its
\* resolver started returning another value
C2_Witness ==
    /\ Resolved1(NC) /\ last.cache /\ config[NC].kind = "resolved"
    /\ last.prev = VStr(LitX)
    /\ resolverVal[NC] = VStr(LitY)
    /\ last.val = VStr(LitX)

\* the value of n computed from scratch: nothing cached, nothing read from cache
Fresh(n) ==
    Resolve(n, FALSE, {}, Start([m \in ConfigNames |-> None], firstVal), {})

\* C3: every .value access on a volatile Resolved node calls the resolver's
\* get_value again and returns the resolver's current value (the value computed
\* from scratch; the resolver's value itself when it holds no reference), and
\* no value is ever stored in that node's cache.
C3_VolatileRecomputed ==
    \A n \in ConfigNames :
        IsVolatile(n) =>
            /\ cached[n] = None
            /\ (Resolved1(n) /\ last.cache) =>
                  /\ last.rcalls[n] >= 1
                  /\ last.ok = Fresh(n).ok
                  /\ last.ok => last.val = Fresh(n).val
                  /\ (last.ok /\ ValueRefs(resolverVal[n]) = {}) =>
                        last.val = resolverVal[n]

\* C3 witness: the volatile node returns y after a node referencing it cached
\* the x it returned before
C3_Witness ==
    /\ Resolved1(NB) /\ last.cache /\ IsVolatile(NB) /\ last.ok
    /\ last.val = VStr(LitY)
    /\ config[NA] = Static(VStr(Tok(NB)))
    /\ cached[NA] = VStr(LitX)

\* no node reachable from n, nor n, is on a cycle of references
AcyclicFrom(n) == \A m \in Reach(n) \cup {n} : ~OnCycle(m)

\* C4 (as claimed): resolving a node whose reference graph is acyclic never
\* raises the cyclic-reference failure, sibling references to a shared config
\* included.
C4_AcyclicNeverCyclic ==
    \A n \in ConfigNames :
        (Resolved1(n) /\ AcyclicFrom(n)) => last.err # "Cyclic"

\* C4, the case that fails: A is "$${B}" and B is "{A}". Splicing B's value
\* leaves "${A}" in A's string, the next search finds it, and A is in its own
\* ancestry, though no node references A as written.
C4_AssembledTokenCyclic ==
    /\ Resolved1(NA) /\ AcyclicFrom(NA)
    /\ config[NA] = Static(VStr(<<"$">> \o Tok(NB)))
    /\ config[NB] = Static(VStr(<<"{", "A", "}">>))
    /\ ~last.ok /\ last.err = "Cyclic"

-----------------------------------------------------------------------------
(* Claims on the task dependency graph assembler *)

\* a declaration names a task of the table
HasCandidate(decl) == \E i \in 1..Len(decl.names) : decl.names[i] \in TaskNames

\* the first name of a declaration, in list order, that is in the table
Candidate(decl) ==
    decl.names[CHOOSE i \in 1..Len(decl.names) :
                   /\ decl.names[i] \in TaskNames
                   /\ \A j \in 1..(i - 1) : decl.names[j] \notin TaskNames]

\* the declaration designates task x
Targets(decl, x) == HasCandidate(decl) /\ Candidate(decl) = x

\* name is one of the dependency names
Named(name, deps) == \E i \in 1..Len(deps) : deps[i] = NameDecl(name)

Reverse(s) == [i \in 1..Len(s) |-> s[Len(s) + 1 - i]]
Decls(names) == [i \in 1..Len(names) |-> NameDecl(names[i])]

\* the last operation, and whether it completed
Validated == tlast.op = "validate" /\ tlast.ok
Contributed(t) == tlast.op = "contribs" /\ tlast.task = t

\* the tasks that append to x in a pass over the table tlast.before, and those
\* that prepend to it, in table order: their names were not among x's
\* dependency names when they contributed
AppendersOf(x) ==
    SelectSeq(TaskOrder, LAMBDA t : /\ Targets(tlast.before[t].append_to, x)
                                    /\ ~Named(t, tlast.before[x].deps))
PrependersOf(x) ==
    SelectSeq(TaskOrder, LAMBDA t : /\ Targets(tlast.before[t].prepend_to, x)
                                    /\ ~Named(t, tlast.before[x].deps)
                                    /\ ~Targets(tlast.before[t].append_to, x))

\* C5: after a validation pass in table order, a target's dependency names are
\* the names of its prependers in reverse table order, then the names it had,
\* then the names of its appenders in table order.
C5_ContributionOrder ==
    Validated =>
        \A x \in TaskNames :
            tasks[x].deps = Decls(Reverse(PrependersOf(x))) \o tlast.before[x].deps
                                \o Decls(AppendersOf(x))

\* C5 witness: T1 then T2 appended to T3, after the candidate it declared
C5_Witness ==
    /\ Validated
    /\ tlast.before[T3].deps = <<ListDecl(<<NM, T1>>)>>
    /\ tasks[T3].deps = <<ListDecl(<<NM, T1>>), NameDecl(T1), NameDecl(T2)>>

\* C6 (as claimed): a task whose append-target or prepend-target resolves to
\* the task itself contributes nothing: its own dependency names and subtasks
\* are left unchanged.
C6_SelfContributionNoop ==
    \A t \in TaskNames :
        (Contributed(t) /\ (\/ Targets(tlast.before[t].append_to, t)
                            \/ Targets(tlast.before[t].prepend_to, t))) =>
            /\ tasks[t].deps = tlast.before[t].deps
            /\ tasks[t].subtasks = tlast.before[t].subtasks

\* C6, the case that fails: T1 appends to T1 and becomes its own subtask
C6_SelfSubtask ==
    /\ Contributed(T1) /\ tlast.ok
    /\ tlast.before[T1].append_to = NameDecl(T1)
    /\ ~Named(T1, tlast.before[T1].deps)
    /\ Named(T1, tasks[T1].deps)
    /\ \E i \in 1..Len(tasks[T1].subtasks) : tasks[T1].subtasks[i] = T1

\* C7: a contribution by a task whose name is already among the target's
\* dependency names changes neither the target's dependency names nor its
\* subtasks; a task that appends and prepends to the same target is added once.
C7_PresentNameNoop ==
    \A t \in TaskNames, x \in TaskNames :
        /\ (Contributed(t) /\ Named(t, tlast.before[x].deps)
               /\ (\/ Targets(tlast.before[t].append_to, x)
                   \/ Targets(tlast.before[t].prepend_to, x))) =>
              tasks[x] = tlast.before[x]
        /\ (Contributed(t) /\ tlast.ok /\ ~Named(t, tlast.before[x].deps)
               /\ Targets(tlast.before[t].append_to, x)
               /\ Targets(tlast.before[t].prepend_to, x)) =>
              tasks[x].deps = Append(tlast.before[x].deps, NameDecl(t))

\* C7 witness: T2 appended and prepended to T3, and is in it once, last
C7_Witness ==
    /\ Contributed(T2) /\ tlast.ok
    /\ tlast.before[T2].append_to = NameDecl(T3)
    /\ tlast.before[T2].prepend_to = NameDecl(T3)
    /\ tlast.before[T3].deps = <<ListDecl(<<NM, T1>>)>>
    /\ tasks[T3].deps = <<ListDecl(<<NM, T1>>), NameDecl(T2)>>
    /\ tasks[T3].subtasks = <<T1, T2>>

\* C8: name resolution of a declaration returns the first candidate, in list
\* order, that is in the task table, fails with the task-resolution error
\* exactly when no candidate is; an absent declaration gives no target and no
\* error.
C8_FirstCandidate ==
    \A i \in 1..Len(tlast.looked) :
        /\ tlast.looked[i].name.k = "none" => tlast.looked[i].out = NoTarget
        /\ tlast.looked[i].name.k # "none" =>
              /\ tlast.looked[i].out.ok <=> HasCandidate(tlast.looked[i].name)
              /\ tlast.looked[i].out.ok =>
                    tlast.looked[i].out = Found(Candidate(tlast.looked[i].name))
              /\ ~tlast.looked[i].out.ok =>
                    (~tlast.ok /\ tlast.err = "TaskNotFound")

\* C8 witness: T3 prepends to the candidates (M, T1), M is no task, and T1 is
\* the target
C8_Witness ==
    /\ Contributed(T3) /\ tlast.ok /\ Len(tlast.looked) = 2
    /\ tlast.looked[2].name = ListDecl(<<NM, T1>>)
    /\ tlast.looked[2].out = Found(T1)
    /\ tasks[T1].deps[1] = NameDecl(T3)

\* C9 (as claimed): every task whose subtasks are set has as many dependency
\* names as subtasks, the subtask at each index being the task its dependency
\* entry at that index names.
C9_DepsSubtasksAligned ==
    \A t \in TaskNames :
        tasks[t].has_subtasks =>
            /\ Len(tasks[t].deps) = Len(tasks[t].subtasks)
            /\ \A i \in 1..Len(tasks[t].deps) :
                   Targets(tasks[t].deps[i], tasks[t].subtasks[i])

\* the dependency entries that are not None
Present(deps) == SelectSeq(deps, LAMBDA e : e.k # "none")

\* C9 (amended): every task whose subtasks are set has as many subtasks as
\* dependency entries other than None, the i-th subtask being the task the
\* i-th such entry names.
C9_AlignedWithoutAbsent ==
    \A t \in TaskNames :
        tasks[t].has_subtasks =>
            /\ Len(Present(tasks[t].deps)) = Len(tasks[t].subtasks)
            /\ \A i \in 1..Len(tasks[t].subtasks) :
                   Targets(Present(tasks[t].deps)[i], tasks[t].subtasks[i])

\* C9 witness: T1 declared (None, T3), T2 prepended to it: three entries, two
\* subtasks
C9_Witness ==
    /\ tasks[T1].has_subtasks
    /\ tasks[T1].deps = <<NameDecl(T2), NoDecl, NameDecl(T3)>>
    /\ tasks[T1].subtasks = <<T2, T3>>

\* the reference pass: the subtasks of every task first, in table order ...
RECURSIVE ResolveAll(_, _)
ResolveAll(ts, i) ==
    IF i > Len(TaskOrder) THEN TOk(ts)
    ELSE IF ~ResolveSubtasksOf(ts, TaskOrder[i]).ok
         THEN ResolveSubtasksOf(ts, TaskOrder[i])
         ELSE ResolveAll(ResolveSubtasksOf(ts, TaskOrder[i]).ts, i + 1)

\* ... and only then the contributions, task by task in table order
RECURSIVE ContributeAll(_, _)
ContributeAll(ts, i) ==
    IF i > Len(TaskOrder) THEN TOk(ts)
    ELSE IF ~ResolveContribsOf(ts, TaskOrder[i]).ok
         THEN ResolveContribsOf(ts, TaskOrder[i])
         ELSE ContributeAll(ResolveContribsOf(ts, TaskOrder[i]).ts, i + 1)

ReferencePass(ts) ==
    IF ~ResolveAll(ts, 1).ok THEN ResolveAll(ts, 1)
    ELSE ContributeAll(ResolveAll(ts, 1).ts, 1)

\* C10: whenever validate_tasks completes without error, every task's subtasks
\* are set and the table it leaves is the one the reference pass leaves.
C10_ValidateIsTwoPhase ==
    Validated =>
        /\ \A t \in TaskNames : tasks[t].has_subtasks
        /\ ReferencePass(tlast.before).ok
        /\ tasks = ReferencePass(tlast.before).ts

\* C10 witness: a pass over a table with no subtasks set, in which T1 and T2
\* appended to T3 before the pass reached T3
C10_Witness ==
    /\ Validated
    /\ \A t \in TaskNames : ~tlast.before[t].has_subtasks
    /\ tlast.before[T3].deps = <<>>
    /\ tasks[T3].deps = <<NameDecl(T1), NameDecl(T2)>>
    /\ tasks[T3].subtasks = <<T1, T2>>

-----------------------------------------------------------------------------
(* Claims on merged configs *)

\* the last operation computed node n anew, and returned
Computed(n) == Resolved1(n) /\ last.ok /\ last.gets[n] >= 1

\* what holder i of merged node n resolves to in the state the last operation
\* started from
HolderValue(n, i) ==
    Format(config[n].static_list[i].name, config[n].static_list[i].path, last.cache,
           config[n].static_list[i].static_value, {}, None,
           Start(last.pre, firstVal), {}).val

\* a sequence of values with every sub-list, at any depth, replaced by its items
RECURSIVE Flat(_)
Flat(xs) ==
    IF xs = <<>> THEN <<>>
    ELSE (IF IsList(Head(xs)) THEN Flat(Head(xs).v) ELSE <<Head(xs)>>) \o Flat(Tail(xs))

\* the items of the holders of n from the i-th on, in holder order
RECURSIVE HolderItems(_, _)
HolderItems(n, i) ==
    IF i > Len(config[n].static_list) THEN <<>>
    ELSE HolderValue(n, i).v \o HolderItems(n, i + 1)

\* C11: a Merged(List) node resolves to its holders' items in holder order,
\* every nested sub-list replaced in place by its items; no item is a list.
C11_ListFlattened ==
    \A n \in ConfigNames :
        (Computed(n) /\ config[n].kind = "list") =>
            /\ last.val = VList(Flat(HolderItems(n, 1)))
            /\ \A i \in 1..Len(last.val.v) : ~IsList(last.val.v[i])

\* C11 witness: holders ["x", ["y", ["x"]]] and ["${C}", "y"], C being
\* [1, ["y"]], give ["x", "y", "x", 1, "y", "y"]
C11_Witness ==
    /\ Computed(NA) /\ config[NA].kind = "list"
    /\ config[NC] = Static(VList(<<VInt(1), VList(<<VStr(LitY)>>)>>))
    /\ last.val = VList(<<VStr(LitX), VStr(LitY), VStr(LitX), VInt(1), VStr(LitY),
                          VStr(LitY)>>)

\* the keys of a sequence of dicts, each once, in the order they first appear
RECURSIVE KeysOf(_, _)
KeysOf(ds, seen) ==
    IF ds = <<>> THEN seen
    ELSE KeysOf(Tail(ds),
                seen \o SelectSeq([i \in 1..Len(Head(ds)) |-> Head(ds)[i][1]],
                                  LAMBDA k : \A j \in 1..Len(seen) : seen[j] # k))

\* the values the dicts of ds give key k, in the order of ds
RECURSIVE ValuesOf(_, _)
ValuesOf(ds, k) ==
    IF ds = <<>> THEN <<>>
    ELSE (IF DictHas(Head(ds), k) THEN <<DictGet(Head(ds), k)>> ELSE <<>>)
             \o ValuesOf(Tail(ds), k)

RECURSIVE AllItems(_)
AllItems(vs) == IF vs = <<>> THEN <<>> ELSE Head(vs).v \o AllItems(Tail(vs))

\* the deep merge of a sequence of dicts, each given as its <<key, value>> items:
\* a key takes the last value when that is a scalar, the deep merge of its
\* values when all are maps, their items one after the other when all are lists
RECURSIVE DeepMerge(_)
RECURSIVE Combined(_)
Combined(vs) ==
    IF ~IsDict(vs[Len(vs)]) /\ ~IsList(vs[Len(vs)]) THEN vs[Len(vs)]
    ELSE IF \A i \in 1..Len(vs) : IsDict(vs[i])
    THEN VDict(DeepMerge([i \in 1..Len(vs) |-> vs[i].v]))
    ELSE IF \A i \in 1..Len(vs) : IsList(vs[i])
    THEN VList(Flat(AllItems(vs)))
    ELSE None

DeepMerge(ds) ==
    [i \in 1..Len(KeysOf(ds, <<>>)) |->
        <<KeysOf(ds, <<>>)[i], Combined(ValuesOf(ds, KeysOf(ds, <<>>)[i]))>>]

\* C12: a Merged(Dict) node resolves to the deep merge of its holders in holder
\* order: the last scalar wins, maps merge key by key, lists follow one
\* another, and keys of earlier holders are kept.
C12_DictDeepMerge ==
    \A n \in ConfigNames :
        (Computed(n) /\ config[n].kind = "dict") =>
            last.val = VDict(DeepMerge([i \in 1..Len(config[n].static_list) |->
                                           HolderValue(n, i).v]))

\* C12 witness: {"k": 1, "m": {"z": 1}} then {"m": {"w": "${C}"}}, C being "x",
\* give {"k": 1, "m": {"z": 1, "w": "x"}}
C12_Witness ==
    /\ Computed(NB)
    /\ config[NB] = Merged("dict", <<Holder(NB, D1), Holder(NB, D2)>>)
    /\ last.val = VDict(<< <<KK, VInt(1)>>,
                           <<KM, VDict(<< <<KZ, VInt(1)>>, <<KW, VStr(LitX)>> >>)>> >>)

\* holder i of merged node n resolves, on its own, to a map
HolderIsMap(n, i) ==
    /\ Format(config[n].static_list[i].name, config[n].static_list[i].path, last.cache,
              config[n].static_list[i].static_value, {}, None,
              Start(last.pre, firstVal), {}).ok
    /\ IsDict(HolderValue(n, i))

KeySet(d) == {d.v[i][1] : i \in 1..Len(d.v)}

\* C20 (as claimed): a Merged(Dict) node whose holders resolve to maps resolves,
\* whatever the kinds of the values the holders give a key, to a map whose keys
\* are those of all the holders.
C20_DictMergeSucceeds ==
    \A n \in ConfigNames :
        (Resolved1(n) /\ config[n].kind = "dict"
            /\ \A i \in 1..Len(config[n].static_list) : HolderIsMap(n, i)) =>
            /\ last.ok
            /\ IsDict(last.val)
            /\ KeySet(last.val) =
                  UNION {KeySet(HolderValue(n, i)) : i \in 1..Len(config[n].static_list)}

\* C20, what the code does: {"k": 1, "m": {"z": 1}} then {"k": {"z": 2}}; the
\* map given for "k" is merged into the 1 that "k" holds, which raises TypeError
C20_KindMismatchRaises ==
    /\ Resolved1(NB) /\ ~last.ok /\ last.err = "MergeType"
    /\ config[NB] = Merged("dict", <<Holder(NB, D1), Holder(NB, D4)>>)
    /\ HolderIsMap(NB, 1) /\ HolderIsMap(NB, 2)
    /\ cached[NB] = None

-----------------------------------------------------------------------------
(* Claims on duplicate contributions *)

\* how often task t occurs in a list of subtasks
Occurrences(t, subtasks) == Cardinality({i \in 1..Len(subtasks) : subtasks[i] = t})

\* how many of the dependency declarations designate task t
Declared(t, deps) == Cardinality({i \in 1..Len(deps) : Targets(deps[i], t)})

\* t contributes to x in the pass that started from the table tlast.before
ContributesTo(t, x) ==
    \/ Targets(tlast.before[t].append_to, x)
    \/ Targets(tlast.before[t].prepend_to, x)

\* C19 (as claimed): after a validation pass a contributing task occurs in its
\* target's subtasks at most once more than the target's declared dependencies
\* designate it, and no more often than they do when the target declares it,
\* by its name or by a candidate list that selects it.
C19_NoDuplicateContribution ==
    \A t, x \in TaskNames :
        (Validated /\ ContributesTo(t, x)) =>
            /\ Occurrences(t, tasks[x].subtasks) <= Declared(t, tlast.before[x].deps) + 1
            /\ Declared(t, tlast.before[x].deps) >= 1 =>
                  Occurrences(t, tasks[x].subtasks) = Declared(t, tlast.before[x].deps)

\* C19, what the code does: T3 depends on ["M", "T1"], which selects T1, and T1
\* appends itself to T3; "T1" is not an entry of T3's dependencies, the list is,
\* and T1 is a subtask of T3 twice
C19_DuplicateSubtask ==
    /\ Validated
    /\ tlast.before[T3].deps = <<ListDecl(<<NM, T1>>)>>
    /\ ~tlast.before[T3].has_subtasks
    /\ tlast.before[T1].append_to = NameDecl(T3)
    /\ tlast.before[T2].append_to = NoDecl /\ tlast.before[T2].prepend_to = NoDecl
    /\ tasks[T3].deps = <<ListDecl(<<NM, T1>>), NameDecl(T1)>>
    /\ tasks[T3].subtasks = <<T1, T1>>

-----------------------------------------------------------------------------
(* Claims on the cache flag, the ancestry and failures *)

\* C15: a resolve with caching disabled, asked for or forced by a volatile
\* Resolved node, computes every config it references from scratch (same
\* outcome, same value and same calls as with nothing cached) and leaves every
\* cached value as it was.
C15_UncachedResolve ==
    \A n \in ConfigNames :
        (Resolved1(n) /\ (~last.cache \/ IsVolatile(n))) =>
            /\ cached = last.pre
            /\ last.ok = Fresh(n).ok
            /\ last.ok => last.val = Fresh(n).val
            /\ last.gets = Fresh(n).st.gets
            /\ last.rcalls = Fresh(n).st.rcalls

\* C15 witness: A, cached as x through the cached C, resolves without cache to
\* the y that C's resolver returns now, and both stay cached as x
C15_Witness ==
    /\ Resolved1(NA) /\ ~last.cache /\ last.ok
    /\ last.val = VStr(LitY)
    /\ cached[NA] = VStr(LitX) /\ cached[NC] = VStr(LitX)
    /\ last.pre = cached

\* C16 (as claimed): at every entry to a node's resolve the ancestry passed in
\* holds every node whose resolve is in progress, so no resolve of a node is
\* entered while another of that node is in progress, also through Merged
\* nodes and their holders.
C16_AncestryComplete ==
    \A n \in ConfigNames : Resolved1(n) => (~last.gap /\ ~last.reentry)

\* C16, what the code does: A is "${B}" and B merges the list ["${A}"]; the
\* holder of B formats with an ancestry of B alone, and A's resolve is entered
\* again while A is being resolved
C16_ReenteredThroughMerged ==
    /\ Resolved1(NA) /\ last.reentry /\ last.gap
    /\ config[NA] = Static(VStr(Tok(NB)))
    /\ config[NB] = Merged("list", <<Holder(NB, VList(<<VStr(Tok(NA))>>))>>)

\* the failures of a resolve that the registry's contents cause
HardFailures == {"Cyclic", "Unknown", "DotPath", "TypeMismatch", "ResolverFailure"}

C18_ReferrerCachesVolatile ==
    \A n, v \in ConfigNames :
        (Resolved1(n) /\ last.cache /\ ~IsVolatile(n) /\ IsVolatile(v)
            /\ v \in Reach(n)) =>
            /\ last.ok => cached[n] = last.val
            /\ last.prev # None =>
                  /\ last.ok
                  /\ last.val = last.prev
                  /\ last.rcalls[v] = 0

\* C18 witness: A is "${B}", B is volatile; A was cached as x, B's resolver
\* returns y by now, and A.value is x
C18_Witness ==
    /\ Resolved1(NA) /\ last.cache /\ last.ok
    /\ config[NA] = Static(VStr(Tok(NB))) /\ IsVolatile(NB)
    /\ last.prev = VStr(LitX) /\ last.val = VStr(LitX)
    /\ resolverVal[NB] = VStr(LitY)
    /\ last.rcalls[NB] = 0

-----------------------------------------------------------------------------
(* Claims on a task's file lists *)

\* the last operation was an access to inputs or outputs
Accessing == flast.op = "access"

\* the index at which path p first occurs among the entries
FirstAt(p, entries) ==
    CHOOSE i \in 1..Len(entries) :
        /\ Path(entries[i].v) = p
        /\ \A j \in 1..(i - 1) : Path(entries[j].v) # p

\* paths holds the path of every entry, once, in the order of first occurrence
FirstOccurrences(paths, entries) ==
    /\ \A i \in 1..Len(entries) : InPaths(Path(entries[i].v), paths)
    /\ \A j \in 1..Len(paths) :
          \E i \in 1..Len(entries) : Path(entries[i].v) = paths[j]
    /\ \A j, k \in 1..Len(paths) :
          j < k => /\ paths[j] # paths[k]
                   /\ FirstAt(paths[j], entries) < FirstAt(paths[k], entries)

\* C13: a first access to inputs (outputs) that returns gives the paths of the
\* resolved list config's entries, duplicates removed and each path at the place
\* of its first occurrence, and the empty list when the task has no list config.
C13_FilesFromConfig ==
    (Accessing /\ flast.ok /\ flast.before = None) =>
        /\ files[flast.field] = flast.val
        /\ IsList(flast.val)
        /\ IF files[CfgField(flast.field)] = None
           THEN flast.val = VList(<<>>)
           ELSE /\ flast.value = cached[files[CfgField(flast.field)].v]
                /\ FirstOccurrences(flast.val.v, flast.value.v)

\* C13 witness: the list config resolves to ["a", "./a", "b", "a/", "b"] and
\* the inputs are [a, b]
C13_Witness ==
    /\ Accessing /\ flast.ok /\ flast.before = None /\ flast.field = "_inputs"
    /\ flast.value = VList(<<VStr(PA), VStr(<<".", "/", "a">>), VStr(PB),
                          VStr(<<"a", "/">>), VStr(PB)>>)
    /\ flast.val = VList(<<Path(PA), Path(PB)>>)

\* C14: an access to inputs (outputs) after the list was computed returns that
\* list and resolves no config, whatever the list config would resolve to by
\* now, also when the list is empty.
C14_FilesComputedOnce ==
    (Accessing /\ flast.before # None) =>
        /\ flast.ok
        /\ flast.val = flast.before
        /\ files[flast.field] = flast.before
        /\ flast.resolves = 0

\* C14 witness: the outputs were computed as the empty list, and are returned
\* again when the list config, computed afresh, has entries
C14_Witness ==
    /\ Accessing /\ flast.field = "_outputs"
    /\ flast.before = VList(<<>>) /\ flast.val = VList(<<>>)
    /\ files._outputs_cfg = ConfigRef(NB)
    /\ Resolve(NB, FALSE, {}, Start(cached, firstVal), {}).val
           = VList(<<VStr(PB), VStr(<<"a", "/">>)>>)

=============================================================================
